---- MODULE Spec2Model ----
(***************************************************************************)
(* pi-heater: the coil control loop (pkg/coil, Coil.Run), its pulse and    *)
(* frame goroutines, the websocket hub's run loop (Hub.Run) and the part   *)
(* of main that starts and stops them.                                     *)
(*                                                                         *)
(* Every goroutine is a process with a position (pc).  A step of a process *)
(* runs from one blocking point of its code to the next.  An unbuffered    *)
(* channel operation is a joint step of its sender and its receiver.       *)
(* Temperatures and setpoints are held in twentieths of a unit, so that    *)
(* the calibration (9/20)*t + 32 is exact on integer raw readings.         *)
(* Timers are untimed: a timer that has been started may fire at any later *)
(* step (Go bounds a timer's delay from below only).                       *)
(*                                                                         *)
(* Spec is the coil with its goroutines, the hub and main, no websocket    *)
(* client connected.  HubSpec is the hub with its websocket clients, whose *)
(* channels have their real capacity; there the coil takes no tick and the *)
(* frames reach the hub without their senders.                             *)
(***************************************************************************)
EXTENDS Integers, Sequences, FiniteSets, TLC

\* ---------------------------------------------------------------- bounds
\* Number of clock ticks the loop is given (one pulse and one frame goroutine each).
MaxTicks == 2

Tasks == 1..MaxTicks

\* Raw sensor readings the device file can deliver.
RawTemps == {100, 400}

\* The float64 NaN, which strconv.ParseFloat accepts as a target; it is kept apart
\* from the numbers a setpoint, an integral or an output can be, which are not negative.
NaN == -1

\* Targets an HTTP client can post (whole units).
Targets == {200, NaN}

\* Number of websocket clients that connect.
MaxClients == 2

Clients == 1..MaxClients

\* Number of disturbances the environment brings to a run: a set-target request
\* posted by an HTTP client, a device operation (a read of the sensor, a write to
\* the actuator) that fails while its file is open, or the failure of
\* http.ListenAndServe.  The signal is not counted.
MaxEvents == 1

\* ---------------------------------------------------------- configuration
\* PI_HEATER_PID_MAX: the PID output clamp and the window, in milliseconds.
PidMax == 1000
\* PI_HEATER_PID_P, _I, _D
KP == 10
KI == 1
KD == 1
\* PI_HEATER_START_TEMP
StartTemp == 80

\* ------------------------------------------------------ program constants
TempScale == 20
CalibOffset == 32
CalibNum == 9
MaxTempDiff == 100
SafetyMargin == 15
OutMin == 0
MsPerSecond == 1000
\* ServeHTTP: send: make(chan []byte, 256)
QueueCap == 256

\* ---------------------------------------------------------------- helpers
Abs(x) == IF x < 0 THEN -x ELSE x

Clamp(x, lo, hi) == IF x > hi THEN hi ELSE IF x < lo THEN lo ELSE x

\* updateTemp: c.Temp = (9.0/20.0)*t + 32.0, here times TempScale.
Calibrate(t) == CalibNum * t + CalibOffset * TempScale

\* pid.Set(target) takes whole units.
Scaled(target) == IF target = NaN THEN NaN ELSE target * TempScale

\* (mutant) the clamp without the safety margin
adjustedMax_NoMargin == PidMax

\* NewCoil: adjustedMax := float64(max - 15)
adjustedMax == PidMax - SafetyMargin

\* c.window = time.Duration(max) * time.Millisecond; FrameDuration: c.window.Milliseconds()
WindowMs == PidMax

\* The time between two PID updates: one window, in seconds.
DtSec == WindowMs \div MsPerSecond

VARIABLES
  loopPc,        \* position of Coil.Run
  Running,       \* c.Running
  Temp,          \* c.Temp (scaled)
  oldTemp,       \* the tick's local oldTemp (0 outside the tick)
  nonInitialRun, \* c.nonInitialRun
  FireTime,      \* c.FireTime, in milliseconds
  err,           \* Run's local err, shared with the pulse goroutines' closures
  ticks,         \* ticks taken from the clock so far
  pid,           \* the PID controller's state
  statf,         \* the actuator device file: open?, last byte written
  tempfOpen,     \* the sensor device file is open
  closes,        \* number of times the deferred close has run
  Firing,        \* c.Firing
  pulse,         \* the pulse goroutine of each tick
  ftask,         \* the frame goroutine of each tick
  CurrentFrame,  \* c.CurrentFrame
  hubPc,         \* position of Hub.Run
  hubGot,        \* the frames Hub.Run has received, in order
  wg,            \* the WaitGroup's counter
  mainPc,        \* position of main
  srvPc,         \* position of the goroutine that runs http.ListenAndServe
  lastTarget,    \* the target of the last set-target the loop has received (history)
  clients,       \* h.clients: the registered clients
  cq,            \* each client: its life, and its send channel
  events         \* disturbances so far (posted targets, failed operations)

vars == <<loopPc, Running, Temp, oldTemp, nonInitialRun, FireTime, err, ticks, pid, statf,
          tempfOpen, closes, Firing, pulse, ftask, CurrentFrame, hubPc, hubGot,
          wg, mainPc, srvPc, lastTarget, clients, cq, events>>

\* The count of what the run is given.
envVars == <<events>>

\* The hub's registry and the clients' channels.
subVars == <<clients, cq>>

coilVars == <<Running, Temp, oldTemp, nonInitialRun, FireTime, err, ticks, pid, statf,
              tempfOpen, closes, Firing>>

\* The zero value of CoilFrame.
ZeroFrame == [Temp |-> 0, Target |-> 0, FrameStart |-> 0, FrameDuration |-> 0, FireTime |-> 0]

NoPulse == [pc |-> "none", res |-> "nil"]
\* A frame goroutine: its position, its frameStart, the frame it has built, and (history,
\* kept until it builds its frame) the values its tick sampled, used and computed.
NoFrameTask == [pc |-> "none", frameStart |-> 0, frame |-> ZeroFrame, snap |-> ZeroFrame]

\* A client that has not connected: ServeHTTP has not run for it.  st is "new", then
\* "live" once ServeHTTP has registered it, then "gone" once it has sent its unregister.
\* Its send channel holds len payloads, the newest of kind last, and is open or closed.
NewClient == [st |-> "new", len |-> 0, last |-> "none", closed |-> FALSE]

\* ------------------------------------------------------------------- PID
\* pidctrl.NewPIDController(p, i, d).SetOutputLimits(0, adjustedMax)
NewPID == [setpoint |-> 0, integral |-> 0, prevValue |-> 0, hasPrev |-> FALSE]

\* pidctrl Set
PIDSet(p, sp) == [p EXCEPT !.setpoint = sp]

\* pidctrl Update: the controller after the update, and its clamped output (scaled).
\* A NaN setpoint makes the error NaN, and with it the integral, which then stays NaN,
\* and the output: no comparison with NaN holds, so the clamps let NaN through.
PIDUpdate(p, value) ==
  LET dt    == IF p.hasPrev THEN DtSec ELSE 0
      nan   == p.setpoint = NaN \/ p.integral = NaN
      e     == p.setpoint - value
      integ == IF nan THEN NaN
               ELSE Clamp(p.integral + e * dt * KI, OutMin * TempScale, adjustedMax * TempScale)
      d     == IF dt > 0 THEN -((value - p.prevValue) \div dt) ELSE 0
      out   == IF nan THEN NaN
               ELSE Clamp(KP * e + integ + KD * d, OutMin * TempScale, adjustedMax * TempScale)
  IN  [next |-> [p EXCEPT !.integral = integ, !.prevValue = value, !.hasPrev = TRUE],
       out  |-> out]

\* time.Duration(output) * time.Millisecond: the output truncated to whole milliseconds.
\* The conversion of NaN is left to the implementation: the amd64 build yields the
\* least int64, the arm and arm64 builds 0, and either times 1000000 is 0.
ToMillis(out) == IF out = NaN THEN 0 ELSE out \div TempScale

\* ------------------------------------------------------------------ Init
Init ==
  /\ loopPc = "idle"
  /\ Running = FALSE
  /\ Temp = 0
  /\ oldTemp = 0
  /\ nonInitialRun = FALSE
  /\ FireTime = 0
  /\ err = "nil"
  /\ ticks = 0
  /\ pid = NewPID
  /\ statf = [open |-> TRUE, last |-> ""]
  /\ tempfOpen = TRUE
  /\ closes = 0
  /\ Firing = FALSE
  /\ pulse = [t \in Tasks |-> NoPulse]
  /\ ftask = [t \in Tasks |-> NoFrameTask]
  /\ CurrentFrame = ZeroFrame
  /\ hubPc = "idle"
  /\ hubGot = <<>>
  /\ wg = 0
  /\ mainPc = "setStart"
  /\ srvPc = "idle"
  /\ lastTarget = 0
  /\ clients = {}
  /\ cq = [c \in Clients |-> NewClient]
  /\ events = 0

\* The process is alive: no goroutine has called os.Exit and none has panicked.
Alive ==
  /\ mainPc # "exited"
  /\ srvPc # "exited"
  /\ loopPc # "panic"
  /\ hubPc \notin {"panic", "marshalPanic"}

\* The environment disturbs the run once more: one of the MaxEvents disturbances.
Disturbed == events < MaxEvents /\ events' = events + 1

\* A write to the actuator file fails: always on a closed file, on an open one by a
\* device failure.
WriteFails == IF statf.open THEN Disturbed ELSE events' = events

\* ------------------------------------------------------------- Coil.Run
\* Run up to its select: c.Running = true; c.WaitGroup.Add(1).
LoopStart ==
  /\ Alive
  /\ loopPc = "idle"
  /\ loopPc' = "select"
  /\ Running' = TRUE
  /\ wg' = wg + 1
  /\ UNCHANGED <<envVars, srvPc, Temp, oldTemp, nonInitialRun, FireTime, err, ticks, pid, statf, tempfOpen,
                 closes, Firing, pulse, ftask, CurrentFrame, hubPc, hubGot, mainPc,
                 lastTarget, subVars>>

\* (mutant) the loop sends the frame on c.CurrentFrameChan itself
AfterSpawnPc_Inline == "publish"

\* The position of the loop once it has started the tick's two goroutines.
AfterSpawnPc == "select"

\* case <-clock: oldTemp := c.Temp; err = c.updateTemp(), which succeeds: the
\* calibrated reading is stored in c.Temp.
TickRead(raw) ==
  /\ Alive
  /\ loopPc = "select"
  /\ ticks < MaxTicks
  /\ ticks' = ticks + 1
  /\ oldTemp' = Temp
  /\ Temp' = Calibrate(raw)
  /\ err' = "nil"
  /\ loopPc' = "tickCheck"
  /\ UNCHANGED <<envVars, srvPc, Running, nonInitialRun, FireTime, pid, statf, tempfOpen, closes,
                 Firing, pulse, ftask, CurrentFrame, hubPc, hubGot, wg, mainPc,
                 lastTarget, subVars>>

\* case <-clock: oldTemp := c.Temp; err = c.updateTemp(), which fails: c.Temp is kept.
TickReadFail ==
  /\ Alive
  /\ loopPc = "select"
  /\ ticks < MaxTicks
  /\ ticks' = ticks + 1
  /\ oldTemp' = Temp
  /\ err' = "err"
  /\ loopPc' = "tickCheck"
  /\ Disturbed
  /\ UNCHANGED <<srvPc, Running, Temp, nonInitialRun, FireTime, pid, statf, tempfOpen, closes,
                 Firing, pulse, ftask, CurrentFrame, hubPc, hubGot, wg, mainPc,
                 lastTarget, subVars>>

\* if err != nil: pid.Set(0), then the send on c.Stop.
TickReadFault ==
  /\ Alive
  /\ loopPc = "tickCheck"
  /\ err = "err"
  /\ pid' = PIDSet(pid, 0)
  /\ oldTemp' = 0
  /\ loopPc' = "sendStopRead"
  /\ UNCHANGED <<envVars, srvPc, Running, Temp, nonInitialRun, FireTime, err, ticks, statf, tempfOpen,
                 closes, Firing, pulse, ftask, CurrentFrame, hubPc, hubGot, wg, mainPc,
                 lastTarget, subVars>>

\* (mutant) the check is applied to the first sample too
IsJump_AlsoFirst(old, new, nonInitial) ==
  Abs(old - new) >= MaxTempDiff * TempScale

\* The thermocouple check of the tick.
IsJump(old, new, nonInitial) ==
  Abs(old - new) >= MaxTempDiff * TempScale /\ nonInitial

\* The temperature has jumped: pid.Set(0), then the send on c.Stop.
TickJump ==
  /\ Alive
  /\ loopPc = "tickCheck"
  /\ err = "nil"
  /\ IsJump(oldTemp, Temp, nonInitialRun)
  /\ pid' = PIDSet(pid, 0)
  /\ oldTemp' = 0
  /\ loopPc' = "sendStopJump"
  /\ UNCHANGED <<envVars, srvPc, Running, Temp, nonInitialRun, FireTime, err, ticks, statf, tempfOpen,
                 closes, Firing, pulse, ftask, CurrentFrame, hubPc, hubGot, wg, mainPc,
                 lastTarget, subVars>>

\* No fault: the PID update, then the pulse and the frame goroutines of the tick.
TickPulse ==
  /\ Alive
  /\ loopPc = "tickCheck"
  /\ err = "nil"
  /\ ~IsJump(oldTemp, Temp, nonInitialRun)
  /\ LET u == PIDUpdate(pid, Temp)
         k == ticks
     IN  /\ nonInitialRun' = TRUE
         /\ pid' = u.next
         /\ FireTime' = ToMillis(u.out)
         /\ pulse' = [pulse EXCEPT ![k] = [pc |-> "start", res |-> "nil"]]
         /\ ftask' = [ftask EXCEPT ![k] = [pc |-> "build", frameStart |-> k,
                                            frame |-> ZeroFrame,
                                            snap  |-> [Temp          |-> Temp,
                                                       Target        |-> pid.setpoint,
                                                       FrameStart    |-> k,
                                                       FrameDuration |-> WindowMs,
                                                       FireTime      |-> ToMillis(u.out)]]]
  /\ oldTemp' = 0
  /\ loopPc' = AfterSpawnPc
  /\ UNCHANGED <<envVars, srvPc, Running, Temp, err, ticks, statf, tempfOpen, closes, Firing,
                 CurrentFrame, hubPc, hubGot, wg, mainPc, lastTarget, subVars>>

\* (mutant) the received target is dropped
ApplyTarget_Dropped(p, target) == p

\* case target := <-c.SetTarget: c.pid.Set(target)
ApplyTarget(p, target) == PIDSet(p, Scaled(target))

\* case target := <-c.SetTarget, sent by main's setStartingTemp.
SetTargetStart ==
  /\ Alive
  /\ loopPc = "select"
  /\ mainPc = "setStart"
  /\ pid' = ApplyTarget(pid, StartTemp)
  /\ lastTarget' = StartTemp
  /\ mainPc' = "startHub"
  /\ UNCHANGED <<envVars, srvPc, loopPc, Running, Temp, oldTemp, nonInitialRun, FireTime, err, ticks, statf,
                 tempfOpen, closes, Firing, pulse, ftask, CurrentFrame, hubPc, hubGot, wg,
                 subVars>>

\* The HTTP server is serving requests: http.ListenAndServe has not returned.
Serving == srvPc = "listen"

\* case target := <-c.SetTarget, sent by Server.handlePost.
SetTargetPost(target) ==
  /\ Alive
  /\ loopPc = "select"
  /\ Serving
  /\ pid' = ApplyTarget(pid, target)
  /\ lastTarget' = target
  /\ Disturbed
  /\ UNCHANGED <<srvPc, loopPc, Running, Temp, oldTemp, nonInitialRun, FireTime, err, ticks, statf,
                 tempfOpen, closes, Firing, pulse, ftask, CurrentFrame, hubPc, hubGot,
                 wg, mainPc, subVars>>

\* A goroutine is ready to receive from c.Stop: Coil.Run's select is the only receive.
StopReceiverReady == loopPc = "select"

\* case <-c.Stop, sent by main: pid.Set(0), then the send on cancelOnOff.
LoopStopMain ==
  /\ Alive
  /\ StopReceiverReady
  /\ mainPc = "sendCoilStop"
  /\ mainPc' = "sendHubStop"
  /\ pid' = PIDSet(pid, 0)
  /\ loopPc' = "cancel"
  /\ UNCHANGED <<envVars, srvPc, Running, Temp, oldTemp, nonInitialRun, FireTime, err, ticks, statf, tempfOpen,
                 closes, Firing, pulse, ftask, CurrentFrame, hubPc, hubGot, wg,
                 lastTarget, subVars>>

\* case <-c.Stop, sent by the server goroutine once http.ListenAndServe has failed.
LoopStopSrv ==
  /\ Alive
  /\ StopReceiverReady
  /\ srvPc = "sendCoilStop"
  /\ srvPc' = "sendHubStop"
  /\ pid' = PIDSet(pid, 0)
  /\ loopPc' = "cancel"
  /\ UNCHANGED <<envVars, Running, Temp, oldTemp, nonInitialRun, FireTime, err, ticks, statf, tempfOpen,
                 closes, Firing, pulse, ftask, CurrentFrame, hubPc, hubGot, wg, mainPc,
                 lastTarget, subVars>>

\* case <-c.Stop, sent by a pulse goroutine whose write failed.
LoopStopPulse(t) ==
  /\ Alive
  /\ StopReceiverReady
  /\ pulse[t].pc = "sendStop"
  /\ pulse' = [pulse EXCEPT ![t].pc = "done"]
  /\ pid' = PIDSet(pid, 0)
  /\ loopPc' = "cancel"
  /\ UNCHANGED <<envVars, srvPc, Running, Temp, oldTemp, nonInitialRun, FireTime, err, ticks, statf, tempfOpen,
                 closes, Firing, ftask, CurrentFrame, hubPc, hubGot, wg, mainPc,
                 lastTarget, subVars>>

\* cancelOnOff <- struct{}{} is received by pulse t, waiting in OnOff's select, which
\* returns nil; then _, err = c.statf.Write("0"), which succeeds.
LoopCancelOff(t) ==
  /\ Alive
  /\ loopPc = "cancel"
  /\ pulse[t].pc = "wait"
  /\ pulse' = [pulse EXCEPT ![t] = [pc |-> "ret", res |-> "nil"]]
  /\ statf' = [statf EXCEPT !.last = "0"]
  /\ err' = "nil"
  /\ loopPc' = "offCheck"
  /\ UNCHANGED <<envVars, srvPc, Running, Temp, oldTemp, nonInitialRun, FireTime, ticks, pid, tempfOpen,
                 closes, Firing, ftask, CurrentFrame, hubPc, hubGot, wg, mainPc,
                 lastTarget, subVars>>

\* The same, but the write of "0" fails.
LoopCancelOffFail(t) ==
  /\ Alive
  /\ loopPc = "cancel"
  /\ pulse[t].pc = "wait"
  /\ pulse' = [pulse EXCEPT ![t] = [pc |-> "ret", res |-> "nil"]]
  /\ err' = "err"
  /\ loopPc' = "offCheck"
  /\ Disturbed
  /\ UNCHANGED <<srvPc, Running, Temp, oldTemp, nonInitialRun, FireTime, ticks, pid, statf,
                 tempfOpen, closes, Firing, ftask, CurrentFrame, hubPc, hubGot, wg, mainPc,
                 lastTarget, subVars>>

\* err == nil: c.Firing = false; c.Running = false; c.WaitGroup.Done().
LoopStopDone ==
  /\ Alive
  /\ loopPc = "offCheck"
  /\ err = "nil"
  /\ Firing' = FALSE
  /\ Running' = FALSE
  /\ wg' = wg - 1
  /\ loopPc' = "closing"
  /\ UNCHANGED <<envVars, srvPc, Temp, oldTemp, nonInitialRun, FireTime, err, ticks, pid, statf,
                 tempfOpen, closes, pulse, ftask, CurrentFrame, hubPc, hubGot, mainPc,
                 lastTarget, subVars>>

\* err != nil: panic(err); the deferred closes run and the process dies.
LoopStopPanic ==
  /\ Alive
  /\ loopPc = "offCheck"
  /\ err = "err"
  /\ statf' = [statf EXCEPT !.open = FALSE]
  /\ tempfOpen' = FALSE
  /\ closes' = closes + 1
  /\ loopPc' = "panic"
  /\ UNCHANGED <<envVars, srvPc, Running, Temp, oldTemp, nonInitialRun, FireTime, err, ticks, pid,
                 Firing, pulse, ftask, CurrentFrame, hubPc, hubGot, wg, mainPc,
                 lastTarget, subVars>>

\* return: the deferred c.statf.Close(); c.tempf.Close().
LoopReturn ==
  /\ Alive
  /\ loopPc = "closing"
  /\ statf' = [statf EXCEPT !.open = FALSE]
  /\ tempfOpen' = FALSE
  /\ closes' = closes + 1
  /\ loopPc' = "done"
  /\ UNCHANGED <<envVars, srvPc, Running, Temp, oldTemp, nonInitialRun, FireTime, err, ticks, pid, Firing, pulse,
                 ftask, CurrentFrame, hubPc, hubGot, wg, mainPc, lastTarget, subVars>>

\* --------------------------------------------- the pulse goroutine, OnOff
\* c.statf.Write("1") succeeds: c.Firing = true, then wait on the timer or the cancel.
PulseOn(t) ==
  /\ Alive
  /\ pulse[t].pc = "start"
  /\ statf.open
  /\ statf' = [statf EXCEPT !.last = "1"]
  /\ Firing' = TRUE
  /\ pulse' = [pulse EXCEPT ![t].pc = "wait"]
  /\ UNCHANGED <<envVars, srvPc, loopPc, Running, Temp, oldTemp, nonInitialRun, FireTime, err, ticks, pid,
                 tempfOpen, closes, ftask, CurrentFrame, hubPc, hubGot, wg, mainPc,
                 lastTarget, subVars>>

\* c.statf.Write("1") fails (always so on a closed file): OnOff returns the error.
PulseOnFail(t) ==
  /\ Alive
  /\ pulse[t].pc = "start"
  /\ pulse' = [pulse EXCEPT ![t] = [pc |-> "ret", res |-> "err"]]
  /\ WriteFails
  /\ UNCHANGED <<srvPc, loopPc, coilVars, ftask, CurrentFrame, hubPc, hubGot, wg, mainPc,
                 lastTarget, subVars>>

\* case <-timer: c.statf.Write("0"), c.Firing = false, return the write's error.
PulseOff(t) ==
  /\ Alive
  /\ pulse[t].pc = "wait"
  /\ \/ /\ statf.open
        /\ statf' = [statf EXCEPT !.last = "0"]
        /\ pulse' = [pulse EXCEPT ![t] = [pc |-> "ret", res |-> "nil"]]
        /\ events' = events
     \/ /\ WriteFails
        /\ statf' = statf
        /\ pulse' = [pulse EXCEPT ![t] = [pc |-> "ret", res |-> "err"]]
  /\ Firing' = FALSE
  /\ UNCHANGED <<srvPc, loopPc, Running, Temp, oldTemp, nonInitialRun, FireTime, err, ticks, pid,
                 tempfOpen, closes, ftask, CurrentFrame, hubPc, hubGot, wg, mainPc,
                 lastTarget, subVars>>

\* err = c.OnOff(...): the closure assigns Run's err.
PulseRet(t) ==
  /\ Alive
  /\ pulse[t].pc = "ret"
  /\ err' = pulse[t].res
  /\ pulse' = [pulse EXCEPT ![t].pc = "check"]
  /\ UNCHANGED <<envVars, srvPc, loopPc, Running, Temp, oldTemp, nonInitialRun, FireTime, ticks, pid, statf,
                 tempfOpen, closes, Firing, ftask, CurrentFrame, hubPc, hubGot, wg, mainPc,
                 lastTarget, subVars>>

\* if err != nil { c.pid.Set(0); c.Stop <- struct{}{} }
PulseCheck(t) ==
  /\ Alive
  /\ pulse[t].pc = "check"
  /\ IF err = "err"
       THEN /\ pid' = PIDSet(pid, 0)
            /\ pulse' = [pulse EXCEPT ![t].pc = "sendStop"]
       ELSE /\ pid' = pid
            /\ pulse' = [pulse EXCEPT ![t].pc = "done"]
  /\ UNCHANGED <<envVars, srvPc, loopPc, Running, Temp, oldTemp, nonInitialRun, FireTime, err, ticks, statf,
                 tempfOpen, closes, Firing, ftask, CurrentFrame, hubPc, hubGot, wg, mainPc,
                 lastTarget, subVars>>

\* ------------------------------------------------- the frame goroutine
\* frame := CoilFrame{...}, read from the coil's fields when the goroutine runs.
FrameBuild(t) ==
  /\ Alive
  /\ ftask[t].pc = "build"
  /\ ftask' = [ftask EXCEPT ![t].pc = "select",
                            ![t].snap = ZeroFrame,
                            ![t].frame = [Temp          |-> Temp,
                                          Target        |-> pid.setpoint,
                                          FrameStart    |-> ftask[t].frameStart,
                                          FrameDuration |-> WindowMs,
                                          FireTime      |-> FireTime]]
  /\ UNCHANGED <<envVars, srvPc, loopPc, coilVars, pulse, CurrentFrame, hubPc, hubGot, wg, mainPc,
                 lastTarget, subVars>>

\* Task t is sending its frame on c.CurrentFrameChan: in its select, or in the send
\* that follows its receive.
Sending(t) == ftask[t].pc \in {"select", "send"}

\* Task t is receiving on c.CurrentFrameChan: in its select.
Receiving(t) == ftask[t].pc = "select"

\* Frame goroutine r's select receives what frame goroutine s sends: r goes on to
\* send its own frame, s to store its frame.
FrameXfer(s, r) ==
  /\ Alive
  /\ s # r
  /\ Sending(s)
  /\ Receiving(r)
  /\ ftask' = [ftask EXCEPT ![s].pc = "store", ![r].pc = "send"]
  /\ UNCHANGED <<envVars, srvPc, loopPc, coilVars, pulse, CurrentFrame, hubPc, hubGot, wg, mainPc,
                 lastTarget, subVars>>

\* c.CurrentFrame = frame
FrameStore(t) ==
  /\ Alive
  /\ ftask[t].pc = "store"
  /\ CurrentFrame' = ftask[t].frame
  /\ ftask' = [ftask EXCEPT ![t].pc = "done"]
  /\ UNCHANGED <<envVars, srvPc, loopPc, coilVars, pulse, hubPc, hubGot, wg, mainPc, lastTarget, subVars>>

\* ---------------------------------------------------------------- Hub.Run
\* Run up to its select: WaitGroup.Add(1); h.running = true.
HubStart ==
  /\ Alive
  /\ hubPc = "start"
  /\ hubPc' = "select"
  /\ wg' = wg + 1
  /\ UNCHANGED <<envVars, srvPc, loopPc, coilVars, pulse, ftask, CurrentFrame, hubGot, mainPc,
                 lastTarget, subVars>>

\* client.send <- m, taken by a select when the channel has room.
Enqueue(q, m) == [q EXCEPT !.len = @ + 1, !.last = m]

\* close(client.send)
CloseQ(q) == [q EXCEPT !.closed = TRUE]

\* (mutant) the send case is taken also when the channel holds QueueCap payloads
HasRoom_OneMore(q) == q.len <= QueueCap

\* The select's send case is ready: the channel's buffer is not full.
HasRoom(q) == q.len < QueueCap

\* A send on a closed channel and a close of a closed channel panic: the hub touches
\* each of the channels of cs in both of its loops.
TouchPanics(cs) == \E c \in cs : cq[c].closed

\* select { case client.send <- payload: default: close(client.send); delete(...) }
Deliver(q, m) == IF HasRoom(q) THEN Enqueue(q, m) ELSE CloseQ(q)

\* (mutant) an evicted client is left in h.clients
Evicted_None(cs) == {}

\* The clients the range over h.clients deletes from it.
Evicted(cs) == {c \in cs : ~HasRoom(cq[c])}

\* json.Marshal(&frame) returns no error: encoding/json refuses a float64 that is NaN
\* or infinite (the model's temperatures are finite).
Marshals(frame) == frame.Target # NaN

\* payload, err := json.Marshal(&frame); if err != nil { panic(err) };
\* for client := range h.clients { select ... }
Broadcast(frame) ==
  IF ~Marshals(frame)
    THEN /\ hubPc' = "marshalPanic"
         /\ UNCHANGED subVars
    ELSE IF TouchPanics(clients)
    THEN /\ hubPc' = "panic"
         /\ UNCHANGED subVars
    ELSE /\ hubPc' = hubPc
         /\ cq' = [c \in Clients |->
                     IF c \in clients THEN Deliver(cq[c], "frame") ELSE cq[c]]
         /\ clients' = clients \ Evicted(clients)

\* case frame := <-h.coil.CurrentFrameChan, sent by frame goroutine s.
HubRecvFrame(s) ==
  /\ Alive
  /\ hubPc = "select"
  /\ Sending(s)
  /\ hubGot' = Append(hubGot, ftask[s].frame)
  /\ ftask' = [ftask EXCEPT ![s].pc = "store"]
  /\ Broadcast(ftask[s].frame)
  /\ UNCHANGED <<envVars, srvPc, loopPc, coilVars, pulse, CurrentFrame, wg, mainPc, lastTarget>>

\* case frame := <-h.coil.CurrentFrameChan, the frame's sender left out (and the frame
\* not recorded in hubGot): a frame of a tick whose setpoint was target.
HubFrameIn(target) ==
  /\ Alive
  /\ hubPc = "select"
  /\ Broadcast([ZeroFrame EXCEPT !.Target = Scaled(target), !.FrameDuration = WindowMs])
  /\ UNCHANGED <<envVars, srvPc, loopPc, coilVars, pulse, ftask, CurrentFrame, hubGot, wg, mainPc,
                 lastTarget>>

\* (mutant) the final message is sent with a blocking send, so never to a full channel
Notify_Skipped(q) == q

\* select { case client.send <- []byte("server process killed"): default: }
Notify(q) == IF HasRoom(q) THEN Enqueue(q, "killed") ELSE q

\* case <-h.Stop: the final message to every client of h.clients and the close of its
\* channel; h.running = false; WaitGroup.Done().
StopClients ==
  IF TouchPanics(clients)
    THEN /\ hubPc' = "panic"
         /\ UNCHANGED <<wg, subVars>>
    ELSE /\ hubPc' = "done"
         /\ wg' = wg - 1
         /\ cq' = [c \in Clients |->
                     IF c \in clients THEN CloseQ(Notify(cq[c])) ELSE cq[c]]
         /\ clients' = clients

\* case <-h.Stop, sent by main.
HubStop ==
  /\ Alive
  /\ hubPc = "select"
  /\ mainPc = "sendHubStop"
  /\ mainPc' = "wgWait"
  /\ StopClients
  /\ UNCHANGED <<envVars, srvPc, loopPc, coilVars, pulse, ftask, CurrentFrame, hubGot, lastTarget>>

\* case <-h.Stop, sent by the server goroutine.
HubStopSrv ==
  /\ Alive
  /\ hubPc = "select"
  /\ srvPc = "sendHubStop"
  /\ srvPc' = "wgWait"
  /\ StopClients
  /\ UNCHANGED <<envVars, mainPc, loopPc, coilVars, pulse, ftask, CurrentFrame, hubGot, lastTarget>>

\* case client := <-h.register, sent by ServeHTTP for a new client c, whose channel
\* ServeHTTP has made: h.clients[client] = true.
Register(c) ==
  /\ Alive
  /\ hubPc = "select"
  /\ Serving
  /\ cq[c].st = "new"
  /\ cq' = [cq EXCEPT ![c].st = "live"]
  /\ clients' = clients \cup {c}
  /\ UNCHANGED <<envVars, srvPc, loopPc, coilVars, pulse, ftask, CurrentFrame, hubPc, hubGot, wg, mainPc,
                 lastTarget>>

\* case client := <-h.unregister, sent by client c when its connection ends:
\* if _, ok := h.clients[client]; ok { delete(h.clients, client); close(client.send) }
Unregister(c) ==
  /\ Alive
  /\ hubPc = "select"
  /\ cq[c].st = "live"
  /\ IF c \in clients /\ TouchPanics({c})
       THEN /\ hubPc' = "panic"
            /\ UNCHANGED subVars
       ELSE /\ hubPc' = hubPc
            /\ cq' = [cq EXCEPT ![c] = IF c \in clients
                                         THEN [CloseQ(@) EXCEPT !.st = "gone"]
                                         ELSE [@ EXCEPT !.st = "gone"]]
            /\ clients' = clients \ {c}
  /\ UNCHANGED <<envVars, srvPc, loopPc, coilVars, pulse, ftask, CurrentFrame, hubGot, wg, mainPc,
                 lastTarget>>

\* The client's writePump takes a payload from its send channel (a closed channel
\* still yields the payloads it holds).
Drain(c) ==
  /\ Alive
  /\ cq[c].len > 0
  /\ cq' = [cq EXCEPT ![c].len = @ - 1,
                      ![c].last = IF cq[c].len = 1 THEN "none" ELSE @]
  /\ UNCHANGED <<envVars, srvPc, loopPc, coilVars, pulse, ftask, CurrentFrame, hubPc, hubGot, wg, mainPc,
                 lastTarget, clients>>

\* ------------------------------------------------------------------- main
\* go wsHub.Run(); go func() { err := http.ListenAndServe(...) ... }()
MainStartHub ==
  /\ Alive
  /\ mainPc = "startHub"
  /\ mainPc' = "serving"
  /\ hubPc' = "start"
  /\ srvPc' = "listen"
  /\ UNCHANGED <<envVars, loopPc, coilVars, pulse, ftask, CurrentFrame, hubGot, wg, lastTarget, subVars>>

\* <-sig
MainSignal ==
  /\ Alive
  /\ mainPc = "serving"
  /\ mainPc' = "sendCoilStop"
  /\ UNCHANGED <<envVars, srvPc, loopPc, coilVars, pulse, ftask, CurrentFrame, hubPc, hubGot, wg,
                 lastTarget, subVars>>

\* wg.Wait(); os.Exit(0)
MainExit ==
  /\ Alive
  /\ mainPc = "wgWait"
  /\ wg = 0
  /\ mainPc' = "exited"
  /\ UNCHANGED <<envVars, srvPc, loopPc, coilVars, pulse, ftask, CurrentFrame, hubPc, hubGot, wg,
                 lastTarget, subVars>>

\* ------------------------------------------------ the server goroutine
\* http.ListenAndServe returns an error.
SrvFail ==
  /\ Alive
  /\ srvPc = "listen"
  /\ Disturbed
  /\ srvPc' = "sendCoilStop"
  /\ UNCHANGED <<loopPc, coilVars, pulse, ftask, CurrentFrame, hubPc, hubGot, wg, mainPc,
                 lastTarget, subVars>>

\* wg.Wait(); os.Exit(0)
SrvExit ==
  /\ Alive
  /\ srvPc = "wgWait"
  /\ wg = 0
  /\ srvPc' = "exited"
  /\ UNCHANGED <<envVars, loopPc, coilVars, pulse, ftask, CurrentFrame, hubPc, hubGot, wg, mainPc,
                 lastTarget, subVars>>

\* ------------------------------------------------------------------- Next
Next ==
  \/ LoopStart
  \/ \E raw \in RawTemps : TickRead(raw)
  \/ TickReadFail
  \/ TickReadFault
  \/ TickJump
  \/ TickPulse
  \/ SetTargetStart
  \/ \E target \in Targets : SetTargetPost(target)
  \/ LoopStopMain
  \/ LoopStopSrv
  \/ \E t \in Tasks : LoopStopPulse(t)
  \/ \E t \in Tasks : LoopCancelOff(t)
  \/ \E t \in Tasks : LoopCancelOffFail(t)
  \/ LoopStopDone
  \/ LoopStopPanic
  \/ LoopReturn
  \/ \E t \in Tasks : PulseOn(t)
  \/ \E t \in Tasks : PulseOnFail(t)
  \/ \E t \in Tasks : PulseOff(t)
  \/ \E t \in Tasks : PulseRet(t)
  \/ \E t \in Tasks : PulseCheck(t)
  \/ \E t \in Tasks : FrameBuild(t)
  \/ \E s, r \in Tasks : FrameXfer(s, r)
  \/ \E t \in Tasks : FrameStore(t)
  \/ HubStart
  \/ \E s \in Tasks : HubRecvFrame(s)
  \/ HubStop
  \/ HubStopSrv
  \/ MainStartHub
  \/ MainSignal
  \/ MainExit
  \/ SrvFail
  \/ SrvExit

Spec == Init /\ [][Next]_vars

\* The hub and its websocket clients: main starts the loop and the hub, clients
\* connect, drain and disconnect, frames arrive, and main stops the loop and the hub
\* (http.ListenAndServe does not fail).
\* The coil takes no tick: the frames' senders are left out.
HubNext ==
  \/ LoopStart
  \/ SetTargetStart
  \/ MainStartHub
  \/ HubStart
  \/ \E c \in Clients : Register(c)
  \/ \E c \in Clients : Unregister(c)
  \/ \E c \in Clients : Drain(c)
  \/ \E target \in Targets : HubFrameIn(target)
  \/ MainSignal
  \/ LoopStopMain
  \/ HubStop

HubSpec == Init /\ [][HubNext]_vars

\* --------------------------------------------------------------- fairness
\* The clock ticks every window; every goroutine that can take a step is scheduled;
\* Go's select chooses among its ready cases at random, so a case that stays ready is
\* taken.  Nothing is assumed of the signal, of HTTP requests, of the failure of
\* http.ListenAndServe or of which device operations fail.
Tick == TickReadFail \/ \E raw \in RawTemps : TickRead(raw)

Fairness ==
  /\ WF_vars(LoopStart)
  /\ WF_vars(Tick)
  /\ WF_vars(SetTargetStart)
  /\ WF_vars(LoopStopMain)
  /\ WF_vars(LoopStopSrv)
  /\ WF_vars(\E t \in Tasks : LoopStopPulse(t))
  /\ WF_vars(TickReadFault \/ TickJump \/ TickPulse)
  /\ WF_vars(\E t \in Tasks : (LoopCancelOff(t) \/ LoopCancelOffFail(t)))
  /\ WF_vars(LoopStopDone \/ LoopStopPanic)
  /\ WF_vars(LoopReturn)
  /\ \A t \in Tasks : WF_vars(PulseOn(t) \/ PulseOnFail(t))
  /\ \A t \in Tasks : WF_vars(PulseOff(t))
  /\ \A t \in Tasks : WF_vars(PulseRet(t))
  /\ \A t \in Tasks : WF_vars(PulseCheck(t))
  /\ \A t \in Tasks : WF_vars(FrameBuild(t))
  /\ \A t \in Tasks : WF_vars(FrameStore(t))
  /\ WF_vars(\E s, r \in Tasks : FrameXfer(s, r))
  /\ WF_vars(HubStart)
  /\ WF_vars(\E s \in Tasks : HubRecvFrame(s))
  /\ WF_vars(HubStop)
  /\ WF_vars(HubStopSrv)
  /\ WF_vars(MainStartHub)
  /\ WF_vars(MainExit)
  /\ WF_vars(SrvExit)

FairSpec == Spec /\ Fairness

\* ------------------------------------------------------ state descriptions
\* The loop has processed a stop: only the deferred close may remain.
LoopStopped == loopPc \in {"closing", "done"} /\ ~Running

\* The loop is suspended in its own send on c.Stop (lines 140 and 147).
FaultSendPcs == {"sendStopRead", "sendStopJump"}

\* Pulse goroutines that have written "1" and have not finished.
InFlight == {t \in Tasks : pulse[t].pc = "wait"}

\* Frame goroutines that have reached the Frame Bus with their frame.
Published == {t \in Tasks : ftask[t].pc \notin {"none", "build"}}

\* Frame goroutines whose frame is waiting on the Frame Bus.
Pending == {t \in Tasks : Sending(t)}

\* Every exchange between frame goroutines that can happen has happened.
BusQuiet == ~ \E s, r \in Tasks : s # r /\ Sending(s) /\ Receiving(r)

\* The frames that have been published: held by a frame goroutine, or received by the hub.
PublishedFrames ==
  {ftask[t].frame : t \in Published} \cup {hubGot[i] : i \in 1..Len(hubGot)}

\* The process has died of the hub's panic on a frame that json.Marshal refuses.
MarshalPanicked == hubPc = "marshalPanic"

\* ------------------------------------------------------------------ claims

\* C1: once a tick finds the measurement to have jumped by at least 100, the loop
\* eventually is Stopped with the setpoint 0 and the actuator's last write "0"
\* (unless the hub's panic on a frame has killed the process first).
C1_JumpLeadsToStopped ==
  (loopPc = "sendStopJump")
    ~> (\/ LoopStopped /\ pid.setpoint = 0 /\ statf.last = "0"
        \/ MarshalPanicked)

\* C2: a tick whose sensor read fails starts no pulse and no frame goroutine, and the
\* loop eventually is Stopped with the setpoint 0 and the actuator's last write "0"
\* (unless the hub's panic on a frame has killed the process first).
C2_ReadFaultLeadsToStopped ==
  /\ [](loopPc = "sendStopRead" => pulse[ticks].pc = "none" /\ ftask[ticks].pc = "none")
  /\ (loopPc = "sendStopRead")
       ~> (\/ LoopStopped /\ pid.setpoint = 0 /\ statf.last = "0"
           \/ MarshalPanicked)

\* C3: a stop sent by main and accepted by the running loop is eventually fully
\* processed: setpoint 0, no pulse in flight, actuator written off, loop Stopped and
\* WaitGroup.Done called (a failing write of "0" is the code's deliberate panic; the
\* hub's panic on a frame may kill the process first).
C3_ExternalStopProcessed ==
  (mainPc = "sendHubStop" /\ loopPc = "cancel")
    ~> (\/ LoopStopped /\ pid.setpoint = 0 /\ InFlight = {}
        \/ loopPc = "panic"
        \/ MarshalPanicked)

\* C4: at most one pulse goroutine has written "1" and not yet finished.
C4_AtMostOnePulseInFlight == Cardinality(InFlight) <= 1

\* C5: every published frame has 0 <= FireTime <= FrameDuration - 15, and its
\* FrameDuration is the configured output maximum.
C5_FireTimeWithinWindow ==
  \A f \in PublishedFrames :
    /\ f.FrameDuration = PidMax
    /\ 0 <= f.FireTime
    /\ f.FireTime <= f.FrameDuration - SafetyMargin

\* C5 witness: the hub has received a frame whose pulse fills the window up to the margin.
C5_Witness ==
  \E i \in 1..Len(hubGot) : hubGot[i].FireTime = PidMax - SafetyMargin

\* C6: the loop is never suspended in a send on c.Stop that only it could receive.
C6_FaultStopNeverBlocksLoop == loopPc \in FaultSendPcs => StopReceiverReady

\* C7: a failed actuator write in a pulse goroutine leads to the loop Stopped with
\* the setpoint 0: never to a panic, never to a loop left running or blocked (a loop
\* already suspended by a sensor fault, which is C6's case, is left aside, and so
\* is a process killed by the hub's panic on a frame).
C7_WriteFaultLeadsToOrderlyStop ==
  (\E t \in Tasks : pulse[t].pc = "ret" /\ pulse[t].res = "err")
    ~> (\/ LoopStopped /\ pid.setpoint = 0
        \/ loopPc \in FaultSendPcs
        \/ MarshalPanicked)

\* C8: a tick that starts the frame goroutine leaves the loop in its select, waiting
\* for its next event, whatever the frame goroutines and the hub are doing.
C8_PublishNeverBlocksLoop ==
  [][(\E t \in Tasks : ftask[t].pc = "none" /\ ftask'[t].pc = "build")
       => loopPc' = "select"]_vars

\* C8 witness: both ticks taken, no frame ever consumed, a frame goroutine suspended in
\* its send on the Frame Bus, and the loop in its select.
C8_Witness ==
  /\ ticks = MaxTicks
  /\ hubGot = <<>>
  /\ \E t \in Tasks : ftask[t].pc = "send"
  /\ loopPc = "select"

\* C9: with no frame taken by the hub and every exchange done, exactly one published
\* frame is pending on the Frame Bus and it is the most recently started one.
C9_BusHoldsLatestOnly ==
  (hubGot = <<>> /\ BusQuiet /\ Published # {})
    => /\ Cardinality(Pending) = 1
       /\ \A t \in Pending : \A u \in Published : ftask[u].frameStart <= ftask[t].frameStart

\* C10: the hub receives frames in the order of their ticks.
C10_HubReceivesInOrder ==
  \A i, j \in 1..Len(hubGot) : i < j => hubGot[i].FrameStart < hubGot[j].FrameStart

\* C13: a stop sent to a loop that is already Stopped has no effect: the loop stays
\* Stopped, its files are closed once only, and the send is not left without a
\* receiver, so that it returns to its caller, which goes on to stop the hub.
C13_StopOnStoppedHasNoEffect ==
  /\ [](closes <= 1)
  /\ [][loopPc = "done" => (loopPc' = "done" /\ ~Running' /\ closes' = closes)]_vars
  /\ [](((mainPc = "sendCoilStop" \/ srvPc = "sendCoilStop") /\ LoopStopped)
          => StopReceiverReady)

\* C15: the PID update of a tick uses the target of the last set-target the loop has
\* received; only a setpoint forced to 0 by a failed pulse can stand in for it.
C15_TickUsesLastTarget ==
  [][\A t \in Tasks :
       (ftask[t].pc = "none" /\ ftask'[t].pc = "build")
         => /\ ftask'[t].snap.Target \in {Scaled(lastTarget), 0}
            /\ (\A u \in Tasks : pulse[u].pc # "sendStop")
                 => ftask'[t].snap.Target = Scaled(lastTarget)]_vars

\* C15 witness: the first tick used the start target, a posted target was received
\* after it, and the second tick has used the posted target.
C15_Witness ==
  /\ ticks = MaxTicks
  /\ ftask[1].pc \notin {"none", "build"}
  /\ ftask[1].frame.Target = Scaled(StartTemp)
  /\ ftask[MaxTicks].pc = "build"
  /\ \E target \in Targets : /\ target # StartTemp
                               /\ lastTarget = target
                               /\ ftask[MaxTicks].snap.Target = Scaled(target)

\* The frame goroutines of the most recent tick that has published.
LatestPublished == {t \in Published : \A u \in Published : ftask[u].frameStart <= ftask[t].frameStart}

\* C16: with the hub Stopped and nothing left to happen on the Frame Bus, c.CurrentFrame,
\* which the status query reads, is the frame of the most recent tick that has published.
C16_StatusQueryReadsLatest ==
  (hubPc = "done" /\ BusQuiet)
    => \A t \in LatestPublished : ftask[t].pc # "store" => CurrentFrame = ftask[t].frame

\* C17: the frame a frame goroutine builds holds what its tick sampled, used as the
\* setpoint and computed.
C17_FrameIsSnapshotOfItsTick ==
  [][\A t \in Tasks :
       (ftask[t].pc = "build" /\ ftask'[t].pc = "select")
         => ftask'[t].frame = ftask[t].snap]_vars

\* C18: once the loop has processed a stop, nothing is written to the actuator.
C18_ActuatorStaysOffAfterStop ==
  [][(loopPc \in {"closing", "done"}) => (statf'.last = statf.last)]_vars

\* C19: a tick sends the jump fault-stop only if an earlier tick has passed its
\* checks and the temperature has changed by 100 or more; a tick that reaches the
\* check without that goes on to the PID update and starts its two goroutines.
C19_JumpCheckFiresOnlyOnJump ==
  [][(loopPc = "tickCheck" /\ loopPc' # "tickCheck" /\ err = "nil") =>
       IF /\ nonInitialRun
          /\ \E t \in Tasks : t < ticks /\ pulse[t].pc # "none"
          /\ Abs(Temp - oldTemp) >= MaxTempDiff * TempScale
         THEN loopPc' = "sendStopJump"
         ELSE /\ loopPc' = "select"
              /\ pulse'[ticks].pc = "start"
              /\ ftask'[ticks].pc = "build"
              /\ FireTime' = ftask'[ticks].snap.FireTime]_vars

\* C19 witness: the first sample, 212 above the initial 0, was let through, and the
\* second, 135 below the first, has made the loop send the jump fault-stop.
C19_Witness ==
  /\ loopPc = "sendStopJump"
  /\ ticks = MaxTicks
  /\ pulse[1].pc # "none"
  /\ Temp = Calibrate(100)

\* ------------------------------------------------- claims about the hub
\* Client c was evicted by a broadcast: its channel is closed and it is out of
\* h.clients, though it has not unregistered.
WasEvicted(c) == cq[c].st = "live" /\ cq[c].closed /\ c \notin clients

\* The hub receives a frame.
FrameStep == \E target \in Targets : HubFrameIn(target)

\* C11: on every frame it receives, the hub enqueues the frame exactly once to every
\* registered client whose channel has room, closes and unregisters every registered
\* client whose channel is full, whatever it does to the other clients, and is left in
\* its select.
C11_BroadcastDeliversOrEvicts ==
  [][FrameStep =>
       \A c \in clients :
         /\ hubPc' = "select"
         /\ IF cq[c].len < QueueCap
              THEN /\ cq'[c].len = cq[c].len + 1
                   /\ cq'[c].last = "frame"
                   /\ ~cq'[c].closed
                   /\ c \in clients'
              ELSE /\ cq'[c].len = cq[c].len
                   /\ cq'[c].closed
                   /\ c \notin clients']_vars

\* C12: no client's channel ever holds more than 256 payloads, no step adds a payload
\* to a channel that holds 256, and a broadcast (the range over h.clients, which the
\* hub reaches once the frame is encoded) that finds 256 payloads in a registered
\* client's channel evicts the client.
C12_QueueNeverExceedsCapacity ==
  /\ [](\A c \in Clients : cq[c].len <= QueueCap)
  /\ [][\A c \in Clients : cq[c].len = QueueCap => cq'[c].len <= QueueCap]_vars
  /\ [][\A c \in clients :
          (FrameStep /\ ~MarshalPanicked' /\ cq[c].len = QueueCap)
            => (cq'[c].len = QueueCap /\ cq'[c].closed /\ c \notin clients')]_vars

\* C12 witness: a client has been evicted and none of its 256 payloads is drained yet.
C12_Witness == \E c \in Clients : WasEvicted(c) /\ cq[c].len = QueueCap /\ cq[c].last = "frame"

\* C14: the hub's stop enqueues the final message to every registered client whose
\* channel has room and to no other, closes the channel of every registered client and
\* ends the hub's loop; after that the hub registers, unregisters and enqueues nothing.
C14_HubStopNotifiesAndCloses ==
  /\ [][(hubPc = "select" /\ hubPc' = "done") =>
          \A c \in clients :
            /\ cq'[c].closed
            /\ IF cq[c].len < QueueCap
                 THEN cq'[c].len = cq[c].len + 1 /\ cq'[c].last = "killed"
                 ELSE cq'[c].len = cq[c].len /\ cq'[c].last = cq[c].last]_vars
  /\ [][hubPc = "done" =>
          /\ hubPc' = "done"
          /\ clients' = clients
          /\ \A c \in Clients :
               /\ cq'[c].st = cq[c].st
               /\ cq'[c].closed = cq[c].closed
               /\ cq'[c].len <= cq[c].len]_vars

\* C14 witness: the hub has stopped with two registered clients, one was sent the final
\* message and the other, whose channel was full, was not.
C14_Witness ==
  /\ hubPc = "done"
  /\ \E c, d \in clients :
       /\ cq[c].closed /\ cq[c].last = "killed"
       /\ cq[d].closed /\ cq[d].len = QueueCap /\ cq[d].last = "frame"

\* The hub closes no channel twice and sends on no closed channel: either panics.
NoChannelPanic == hubPc # "panic"

\* A step in which client c's unregister is received while c is not in h.clients
\* changes nothing but the client's own life.
UnregisterOfAbsentIsNoOp ==
  \A c \in Clients :
    (cq[c].st = "live" /\ cq'[c].st = "gone" /\ c \notin clients)
      => /\ clients' = clients
         /\ hubPc' = hubPc
         /\ cq' = [cq EXCEPT ![c].st = "gone"]

\* C20 (as stated): no channel is closed twice, nothing is sent on a closed channel,
\* every client in h.clients has its channel open, and the unregister of a client that
\* is not in h.clients changes nothing.
C20_RegistryHoldsOpenQueuesOnly ==
  /\ [](NoChannelPanic)
  /\ [](\A c \in clients : ~cq[c].closed)
  /\ [][UnregisterOfAbsentIsNoOp]_vars

\* C20 (amended): the same, the clients of h.clients having their channels open as
\* long as the hub runs: its stop closes their channels and leaves them in h.clients.
C20_RunningRegistryHoldsOpenQueuesOnly ==
  /\ [](NoChannelPanic)
  /\ [](hubPc = "select" => \A c \in clients : ~cq[c].closed)
  /\ [](hubPc = "done" => \A c \in clients : cq[c].closed)
  /\ [][UnregisterOfAbsentIsNoOp]_vars

\* C20 witness: the hub runs, one client has been evicted and has then unregistered
\* or has unregistered with its channel full, another has been evicted and has not.
C20_Witness ==
  /\ hubPc = "select"
  /\ \E c, d \in Clients :
       /\ cq[c].st = "gone" /\ cq[c].closed /\ cq[c].len = QueueCap
       /\ WasEvicted(d)

====
